---------------------------- MODULE Spec2Model ----------------------------
(***************************************************************************)
(* A model of outfits.bio's credential authentication (src/server/auth.ts), *)
(* of the settings page's mutation controller (pages/settings/profile.tsx), *)
(* of the profile card's optimistic like toggle (components/ProfileCard.tsx)*)
(* and of the confirmation-gated destructive actions (ProfileCard.tsx, the  *)
(* profile post modal).                                                     *)
(*                                                                          *)
(* JavaScript values: null and undefined are the strings Null and Undefined,*)
(* an optional object is a sequence of length 0 (absent) or 1 (present).    *)
(***************************************************************************)
EXTENDS Integers, Sequences, FiniteSets, TLC

VARIABLES
    \* ---- server side
    db,             \* the user table: user id -> Identity record
    token,          \* the signed JWT held in the session cookie (optional)
    \* ---- the client's session (useSession) and the last authorize call
    session,        \* the client's session object: [user |-> optional]
    authCall,       \* the last call of authorize: credentials, outcome
    updates,        \* session refreshes (update()) requested and not yet served
    \* ---- settings page (profile.tsx)
    loading,        \* useState(false)
    file,           \* useFileUpload's staged file (TRUE: a file is staged)
    form,           \* react-hook-form's values: [username, tagline]
    chains,         \* the submit chains started so far: a sequence of records
                    \* (fields and payload submitted, state of the upload and of
                    \* the edit, the navigations and the calls of its handlers)
    location,       \* the router's current path
    toasts,         \* the error messages surfaced so far
    getMe,          \* the getMe query: [links, invalidated]
    linkMutation,   \* addLink's mutation state: idle | loading | success | error
    imageDeletes,   \* deleteImage requests in flight
    isOpen,         \* the delete-account modal
    profileDeletes, \* deleteProfile requests in flight
    signedOut,      \* signOut() was called
    \* ---- profile card (ProfileCard.tsx)
    cache,          \* the getProfile query: [data |-> optional, invalidated,
                    \* fetching (a refetch is in flight)]
    profileData,    \* the profileData prop of the latest render (optional)
    likes,          \* the server's authoritative {authUserHasLiked, likeCount}
    like,           \* the likeProfile mutation: [state, context, n]
    viewer,         \* the viewer of the profile: [isCurrentUser, admin]
    \* ---- destructive actions (ProfileCard.tsx, profile post modal)
    modals,         \* which confirmation modal is open: kind -> BOOLEAN
    post,           \* the post prop of the post modal (optional id)
    postId,         \* the router's query.postId (optional id)
    issued,         \* the delete requests issued: kind -> sequence of ids sent
    deletes,        \* their outcomes: kind -> sequence of pending | done | failed
    listings,       \* the post listing queries: [invalidated]
    guarded         \* the id each Delete handler checked when it opened the modal

vars == << db, token, session, authCall, updates,
           loading, file, form, chains, location, toasts, getMe,
           linkMutation, imageDeletes, isOpen, profileDeletes, signedOut,
           cache, profileData, likes, like, viewer,
           modals, post, postId, issued, deletes, listings, guarded >>

authVars == << db, token, session, authCall, updates >>
pageVars == << loading, file, form, chains, location, toasts, getMe,
               linkMutation, imageDeletes, isOpen, profileDeletes, signedOut >>
cardVars == << cache, profileData, likes, like, viewer >>
gateVars == << modals, post, postId, issued, deletes, listings,
               guarded >>

-----------------------------------------------------------------------------
(* JavaScript values *)

Null == "<null>"
Undefined == "<undefined>"

\* JavaScript's truthiness of a string | null | undefined
Truthy(x) == x \notin {Null, Undefined, ""}

None == << >>
Some(x) == << x >>
IsSome(o) == Len(o) = 1
Get(o) == o[1]

-----------------------------------------------------------------------------
(* Credential authentication: src/server/auth.ts *)

UserIds == {"u1", "u2"}
EmailOf == [u \in UserIds |-> IF u = "u1" THEN "a@x.com" ELSE "b@x.com"]
Emails == {"a@x.com", "b@x.com", "nobody@x.com"}
Passwords == {"correct", "wrong", "", Undefined}

\* bcrypt: the hash of a plaintext, and the comparison of a plaintext with a hash
BcryptHash(p) == "$2b$" \o p
BcryptCompare(p, h) == h = BcryptHash(p)

\* what a user row may hold as its password: no hash, an empty one, a hash
StoredPasswords == {Null, "", BcryptHash("correct")}

\* prisma.user.findUnique({where: {email}, select: {id, username, image, password}})
findUnique(email) ==
    LET hit == {u \in DOMAIN db : db[u].email = email}
    IN  IF hit = {} THEN None
        ELSE LET u == CHOOSE x \in hit : TRUE
             IN  Some([id |-> db[u].id, username |-> db[u].username,
                       image |-> db[u].image, password |-> db[u].password])

\* the value authorize returns on success (AuthorizeLeak: the selected row
\* returned as it is, password included)
AuthorizeLeak(user) == user
AuthorizeValue(user) ==
    [id |-> user.id, username |-> user.username, image |-> user.image]

\* passwordMatches: user.password && credentials?.password && bcrypt.compare(..)
\* (PasswordMatchesNoHashCheck: the comparison left out)
PasswordMatchesNoHashCheck(user, credentials) ==
    Truthy(user.password) /\ Truthy(credentials.password)
passwordMatches(user, credentials) ==
    /\ Truthy(user.password)
    /\ Truthy(credentials.password)
    /\ BcryptCompare(credentials.password, user.password)

\* whether bcrypt.compare is reached: only for a found user, and && short-circuits
\* (CompareAlways: the comparison made before the checks)
CompareAlways(found, credentials) == TRUE
compareInvoked(found, credentials) ==
    /\ IsSome(found)
    /\ Truthy(Get(found).password)
    /\ Truthy(credentials.password)

\* authorize(credentials): the outcome, and whether bcrypt.compare was invoked
authorize(credentials) ==
    LET found == findUnique(credentials.email)
        base == [called |-> TRUE, credentials |-> credentials,
                 compared |-> compareInvoked(found, credentials)]
    IN  IF ~IsSome(found)
        THEN base @@ [ok |-> FALSE, error |-> "No user found"]
        ELSE IF ~passwordMatches(Get(found), credentials)
        THEN base @@ [ok |-> FALSE, error |-> "Password does not match"]
        ELSE base @@ [ok |-> TRUE, value |-> AuthorizeValue(Get(found))]

\* callbacks.jwt({token, user}): user is an optional (defined only at sign-in)
jwt(tok, user) ==
    IF IsSome(user) THEN [tok EXCEPT !.user = user] ELSE tok

\* callbacks.session({session, token})
sessionCallback(sess, tok) ==
    IF IsSome(tok.user) THEN [sess EXCEPT !.user = tok.user] ELSE sess

\* the token and session NextAuth starts from
DefaultToken == [user |-> None]
DefaultSession == [user |-> None]


\* the signed-in user's id, read from the token (ctx.session.user.id on the server)
Me == IF IsSome(token) /\ IsSome(Get(token).user) THEN Get(Get(token).user).id ELSE Null

\* NextAuth's credentials sign-in: authorize, then the jwt callback with the user
SignIn(credentials) ==
    LET r == authorize(credentials)
    IN  /\ authCall' = r
        /\ token' = IF r.ok THEN Some(jwt(DefaultToken, Some(r.value))) ELSE token
        /\ UNCHANGED << db, session, updates >>

\* a session read (useSession / getServerSession): jwt without a user, then session
GetSession ==
    /\ IsSome(token)
    /\ token' = Some(jwt(Get(token), None))
    /\ session' = sessionCallback(DefaultSession, Get(token'))
    /\ UNCHANGED << db, authCall, updates >>

\* signOut(): the cookie and the client's session are dropped
SignOut ==
    /\ IsSome(token)
    /\ token' = None
    /\ session' = DefaultSession
    /\ UNCHANGED << db, authCall, updates >>

-----------------------------------------------------------------------------
(* The settings page: src/pages/settings/profile.tsx *)

MaxSubmits == 2     \* submit chains started in one behaviour
MaxPending == 1     \* deleteImage / deleteProfile requests in flight at once
MaxUpdates == 1     \* session refreshes requested and not yet served

SettingsPath == "/settings/profile"
FormUsernames == {"", "alicia"}
FormTaglines == {"", "hi"}
NewImage == "avatar-2"
LinkUrl == "https://github.com/alice"

\* react-hot-toast's toast.error(message): the message is shown
toastError(message) == toasts \cup {message}

\* handleErrors({e, message, fn}) shows the message (and calls fn, which each
\* handler below does itself)
handleErrors(message) == toastError(message)

\* the fn of the page's onError handlers: () => setLoading(false)
\* (OnErrorFnMissing: no fn passed, loading left as it was)
OnErrorFnMissing(l) == l
onErrorFn(l) == FALSE

\* useSession's update(): one more refresh request to the session endpoint
\* (requests beyond MaxUpdates coalesce: a refresh is idempotent)
update == IF updates < MaxUpdates THEN updates + 1 ELSE updates

\* the session endpoint serves one refresh: the jwt callback runs without a user
SessionUpdate ==
    /\ updates > 0
    /\ IsSome(token)
    /\ updates' = updates - 1
    /\ token' = Some(jwt(Get(token), None))
    /\ session' = sessionCallback(DefaultSession, Get(token'))
    /\ UNCHANGED << db, authCall >>
    /\ UNCHANGED << pageVars, cardVars, gateVars >>

\* the server's mutations of the Identity record (the tRPC user router)
ServerEditProfile(u, payload) ==
    [db EXCEPT ![u].username = IF Truthy(payload.username) THEN payload.username ELSE @]
ServerSetImage(u) == [db EXCEPT ![u].image = NewImage]
ServerDeleteImage(u) == [db EXCEPT ![u].image = Null]
ServerDeleteProfile(u) == [x \in DOMAIN db \ {u} |-> db[x]]
ServerAddLink(u, url) == [db EXCEPT ![u].links = @ \cup {url}]

\* the server accepts a mutation of the signed-in user while the user exists
Authorized == Me \in DOMAIN db

\* the page is mounted and usable
OnPage == location = SettingsPath /\ ~signedOut

\* <input {...register(field)}>: the user edits a form field
register(field, v) ==
    /\ OnPage
    /\ form[field] # v
    /\ form' = [form EXCEPT ![field] = v]
    /\ UNCHANGED << loading, file, chains, location, toasts, getMe, linkMutation,
                    imageDeletes, isOpen, profileDeletes, signedOut >>
    /\ UNCHANGED << authVars, cardVars, gateVars >>

\* useFileUpload's handleChange / handleDrop: a file is staged
handleChange ==
    /\ OnPage
    /\ ~file
    /\ file' = TRUE
    /\ UNCHANGED << loading, form, chains, location, toasts, getMe, linkMutation,
                    imageDeletes, isOpen, profileDeletes, signedOut >>
    /\ UNCHANGED << authVars, cardVars, gateVars >>

\* handleFormSubmit, line 109: if (file) setImage()
\* (SetImageOnlyWithoutFields: the upload skipped when a field is submitted)
SetImageOnlyWithoutFields(staged, username, tagline) ==
    staged /\ ~(Truthy(username) \/ Truthy(tagline))
callsSetImage(staged, username, tagline) == staged

\* handleFormSubmit, line 114: (username && username.length) || (tagline && tagline.length)
\* (CallsMutateUnlessStaged: the edit made an else-branch of the upload;
\* CallsMutateAlways: the condition dropped)
CallsMutateAlways(staged, username, tagline) == TRUE
CallsMutateUnlessStaged(staged, username, tagline) ==
    ~staged /\ (Truthy(username) \/ Truthy(tagline))
callsMutate(staged, username, tagline) == Truthy(username) \/ Truthy(tagline)

\* handleFormSubmit: setLoading(true) ... else setLoading(false)
\* (LoadingNotSet: setLoading(true) left out)
LoadingNotSet(staged, username, tagline) == FALSE
loadingAfterSubmit(staged, username, tagline) == callsMutate(staged, username, tagline)

\* handleFormSubmit, lines 114-117: mutate({username, tagline}), the submitted
\* values as they are
\* (PayloadEmptyAsNull: an empty field sent as null)
PayloadEmptyAsNull(username, tagline) ==
    [username |-> IF Truthy(username) THEN username ELSE Null,
     tagline |-> IF Truthy(tagline) THEN tagline ELSE Null]
mutatePayload(username, tagline) == [username |-> username, tagline |-> tagline]

\* the chain one run of handleFormSubmit starts
newChain(staged, username, tagline) ==
    [staged |-> staged,
     fields |-> [username |-> username, tagline |-> tagline],
     img |-> IF callsSetImage(staged, username, tagline) THEN "rpc" ELSE "none",
     edit |-> IF callsMutate(staged, username, tagline) THEN "pending" ELSE "none",
     payload |-> IF callsMutate(staged, username, tagline)
                 THEN Some(mutatePayload(username, tagline)) ELSE None,
     navs |-> << >>,
     calls |-> << >>]

\* the Save Changes button (disabled={loading}) submits the form
handleFormSubmit ==
    /\ OnPage
    /\ ~loading
    /\ Len(chains) < MaxSubmits
    /\ chains' = Append(chains, newChain(file, form.username, form.tagline))
    /\ loading' = loadingAfterSubmit(file, form.username, form.tagline)
    /\ UNCHANGED << file, form, location, toasts, getMe, linkMutation,
                    imageDeletes, isOpen, profileDeletes, signedOut >>
    /\ UNCHANGED << authVars, cardVars, gateVars >>

ImgInFlight(c) == c.img \in {"rpc", "put"}
EditInFlight(c) == c.edit = "pending"
InFlight(c) == ImgInFlight(c) \/ EditInFlight(c)

\* setImage resolves: the server returns the presigned URL; onSuccess starts
\* the PUT of the file (await axios.put(result, file))
setImageResolve(i) ==
    /\ chains[i].img = "rpc"
    /\ Authorized
    /\ db' = ServerSetImage(Me)
    /\ chains' = [chains EXCEPT ![i].img = "put"]
    /\ UNCHANGED << token, session, authCall, updates >>
    /\ UNCHANGED << loading, file, form, location, toasts, getMe, linkMutation,
                    imageDeletes, isOpen, profileDeletes, signedOut >>
    /\ UNCHANGED << cardVars, gateVars >>

\* setImage's onError, for a rejected request and for a rejected PUT (an
\* onSuccess that throws ends in onError)
setImageOnError(i) ==
    /\ chains' = [chains EXCEPT ![i].img = "failed"]
    /\ toasts' = handleErrors("Failed to set image!")
    /\ loading' = onErrorFn(loading)
    /\ UNCHANGED << file, form, location, getMe, linkMutation,
                    imageDeletes, isOpen, profileDeletes, signedOut >>
    /\ UNCHANGED << authVars, cardVars, gateVars >>

setImageReject(i) ==
    /\ chains[i].img = "rpc"
    /\ setImageOnError(i)

putReject(i) ==
    /\ chains[i].img = "put"
    /\ setImageOnError(i)

\* setImage's onSuccess after the PUT: line 82 reads the form's current values
returnsEarly == ~Truthy(form.username) /\ ~Truthy(form.username)

\* `/${session?.user.username}`
SessionProfileUrl ==
    "/" \o (IF IsSome(session.user) THEN Get(session.user).username ELSE "undefined")

putResolve(i) ==
    /\ chains[i].img = "put"
    /\ IF returnsEarly
       THEN /\ updates' = update
            /\ location' = SessionProfileUrl
            /\ chains' = [chains EXCEPT ![i].img = "done",
                                        ![i].navs = Append(@, SessionProfileUrl),
                                        ![i].calls = @ \o << "update", "push" >>]
       ELSE /\ chains' = [chains EXCEPT ![i].img = "done"]
            /\ UNCHANGED << updates, location >>
    /\ UNCHANGED << db, token, session, authCall >>
    /\ UNCHANGED << loading, file, form, toasts, getMe, linkMutation,
                    imageDeletes, isOpen, profileDeletes, signedOut >>
    /\ UNCHANGED << cardVars, gateVars >>

\* editProfile's onSuccess, line 60: `/${data.username}`, data the user the
\* server returned
\* (EditProfileUrlFromSession: the session's username used instead)
EditProfileUrlFromSession(data) == SessionProfileUrl
editProfileUrl(data) == "/" \o data.username

\* editProfile resolves: the server applies the payload and returns the user;
\* onSuccess: update(); push(`/${data.username}`)
editProfileResolve(i) ==
    /\ chains[i].edit = "pending"
    /\ Authorized
    /\ db' = ServerEditProfile(Me, Get(chains[i].payload))
    /\ updates' = update
    /\ location' = editProfileUrl(db'[Me])
    /\ chains' = [chains EXCEPT ![i].edit = "done",
                                ![i].navs = Append(@, editProfileUrl(db'[Me])),
                                ![i].calls = @ \o << "update", "push" >>]
    /\ UNCHANGED << token, session, authCall >>
    /\ UNCHANGED << loading, file, form, toasts, getMe, linkMutation,
                    imageDeletes, isOpen, profileDeletes, signedOut >>
    /\ UNCHANGED << cardVars, gateVars >>

\* editProfile's onError
editProfileReject(i) ==
    /\ chains[i].edit = "pending"
    /\ chains' = [chains EXCEPT ![i].edit = "failed"]
    /\ toasts' = handleErrors("Failed to edit profile!")
    /\ loading' = onErrorFn(loading)
    /\ UNCHANGED << file, form, location, getMe, linkMutation,
                    imageDeletes, isOpen, profileDeletes, signedOut >>
    /\ UNCHANGED << authVars, cardVars, gateVars >>

\* handleFormSubmitLink: the add-link button is disabled while linkLoading
handleFormSubmitLink ==
    /\ OnPage
    /\ linkMutation # "loading"
    /\ linkMutation' = "loading"
    /\ UNCHANGED << loading, file, form, chains, location, toasts, getMe,
                    imageDeletes, isOpen, profileDeletes, signedOut >>
    /\ UNCHANGED << authVars, cardVars, gateVars >>

\* addLink resolves: the server stores the link; onSuccess: toast.success, update()
addLinkResolve ==
    /\ linkMutation = "loading"
    /\ Authorized
    /\ db' = ServerAddLink(Me, LinkUrl)
    /\ linkMutation' = "success"
    /\ updates' = update
    /\ UNCHANGED << token, session, authCall >>
    /\ UNCHANGED << loading, file, form, chains, location, toasts, getMe,
                    imageDeletes, isOpen, profileDeletes, signedOut >>
    /\ UNCHANGED << cardVars, gateVars >>

\* addLink's onError
addLinkReject ==
    /\ linkMutation = "loading"
    /\ linkMutation' = "error"
    /\ toasts' = handleErrors("Failed to add link!")
    /\ loading' = onErrorFn(loading)
    /\ UNCHANGED << file, form, chains, location, getMe,
                    imageDeletes, isOpen, profileDeletes, signedOut >>
    /\ UNCHANGED << authVars, cardVars, gateVars >>

\* api.user.getMe.useQuery(): the query refetches when it is invalidated, and on
\* its own (window focus, remount)
getMeRefetch ==
    /\ OnPage
    /\ Authorized
    /\ getMe # [links |-> db[Me].links, invalidated |-> FALSE]
    /\ getMe' = [links |-> db[Me].links, invalidated |-> FALSE]
    /\ UNCHANGED << loading, file, form, chains, location, toasts, linkMutation,
                    imageDeletes, isOpen, profileDeletes, signedOut >>
    /\ UNCHANGED << authVars, cardVars, gateVars >>

\* the Remove button: deleteImage() (the button is never disabled)
deleteImageClick ==
    /\ OnPage
    /\ imageDeletes < MaxPending
    /\ imageDeletes' = imageDeletes + 1
    /\ UNCHANGED << loading, file, form, chains, location, toasts, getMe,
                    linkMutation, isOpen, profileDeletes, signedOut >>
    /\ UNCHANGED << authVars, cardVars, gateVars >>

\* deleteImage resolves: onSuccess: toast.success, update()
deleteImageResolve ==
    /\ imageDeletes > 0
    /\ Authorized
    /\ db' = ServerDeleteImage(Me)
    /\ imageDeletes' = imageDeletes - 1
    /\ updates' = update
    /\ UNCHANGED << token, session, authCall >>
    /\ UNCHANGED << loading, file, form, chains, location, toasts, getMe,
                    linkMutation, isOpen, profileDeletes, signedOut >>
    /\ UNCHANGED << cardVars, gateVars >>

\* deleteImage's onError
deleteImageReject ==
    /\ imageDeletes > 0
    /\ imageDeletes' = imageDeletes - 1
    /\ toasts' = handleErrors("Failed to delete image!")
    /\ loading' = onErrorFn(loading)
    /\ UNCHANGED << file, form, chains, location, getMe,
                    linkMutation, isOpen, profileDeletes, signedOut >>
    /\ UNCHANGED << authVars, cardVars, gateVars >>

-----------------------------------------------------------------------------
(* Destructive actions behind the confirmation modal: profile.tsx (account), *)
(* ProfileCard.tsx (admin deleteUser), the profile post modal (posts)        *)

MaxDeletes == 2     \* delete requests issued in one behaviour

Kinds == {"deleteProfile", "deleteUser", "adminPost", "userPost"}
PostIds == {"p1", "p2"}
ProfilePath == "/alice"

authStatus == IF IsSome(session.user) THEN "authenticated" ELSE "unauthenticated"

Issued == Len(issued["deleteProfile"]) + Len(issued["deleteUser"])
          + Len(issued["adminPost"]) + Len(issued["userPost"])

\* whether kind k's confirmation modal is open
ModalOpen(k) == IF k = "deleteProfile" THEN isOpen ELSE modals[k]

\* the Danger Zone's Delete button: onClick={() => setIsOpen(true)}
openDeleteModal ==
    /\ OnPage
    /\ ~isOpen
    /\ Issued < MaxDeletes
    /\ isOpen' = TRUE
    /\ UNCHANGED << loading, file, form, chains, location, toasts, getMe,
                    linkMutation, imageDeletes, profileDeletes, signedOut >>
    /\ UNCHANGED << authVars, cardVars, gateVars >>

\* <DeleteModal deleteAccount={deleteProfile}>: the modal's confirm button calls
\* deleteAccount and closes the modal
confirmDeleteAccount ==
    /\ OnPage
    /\ isOpen
    /\ isOpen' = FALSE
    /\ profileDeletes' = profileDeletes + 1
    /\ issued' = [issued EXCEPT !["deleteProfile"] = Append(@, Me)]
    /\ UNCHANGED << loading, file, form, chains, location, toasts, getMe,
                    linkMutation, imageDeletes, signedOut >>
    /\ UNCHANGED << authVars, cardVars, modals, post, postId, deletes, listings,
                    guarded >>

\* the modal's cancel button: setIsOpen(false)
cancelDeleteAccount ==
    /\ OnPage
    /\ isOpen
    /\ isOpen' = FALSE
    /\ UNCHANGED << loading, file, form, chains, location, toasts, getMe,
                    linkMutation, imageDeletes, profileDeletes, signedOut >>
    /\ UNCHANGED << authVars, cardVars, gateVars >>

\* deleteProfile resolves: the server deletes the user; onSuccess: toast.success,
\* signOut({callbackUrl: "/"})
deleteProfileResolve ==
    /\ profileDeletes > 0
    /\ Authorized
    /\ db' = ServerDeleteProfile(Me)
    /\ profileDeletes' = profileDeletes - 1
    /\ signedOut' = TRUE
    /\ token' = None
    /\ session' = DefaultSession
    /\ location' = "/"
    /\ UNCHANGED << authCall, updates >>
    /\ UNCHANGED << loading, file, form, chains, toasts, getMe,
                    linkMutation, imageDeletes, isOpen >>
    /\ UNCHANGED << cardVars, gateVars >>

\* deleteProfile's onError
deleteProfileReject ==
    /\ profileDeletes > 0
    /\ profileDeletes' = profileDeletes - 1
    /\ toasts' = handleErrors("Failed to delete account!")
    /\ loading' = onErrorFn(loading)
    /\ UNCHANGED << file, form, chains, location, getMe,
                    linkMutation, imageDeletes, isOpen, signedOut >>
    /\ UNCHANGED << authVars, cardVars, gateVars >>

\* the profile page is shown (the card and, over it, the post modal)
OnProfile == location = ProfilePath

\* the post modal renders (line 113: if (!post || !user) return null)
PostShown == OnProfile /\ IsSome(post)

\* the profile page opens a post in the modal (?postId=p)
viewPost(p) ==
    /\ OnProfile
    /\ ~IsSome(post)
    /\ post' = Some([id |-> p])
    /\ postId' = Some(p)
    /\ UNCHANGED << modals, issued, deletes, listings, guarded >>
    /\ UNCHANGED << authVars, pageVars, cardVars >>

\* the route changes to another post of the profile (?postId=p, by the
\* browser's history or an edited URL): the page shows that post in the modal,
\* which stays mounted with its state
routeChange(p) ==
    /\ PostShown
    /\ postId # Some(p)
    /\ post' = Some([id |-> p])
    /\ postId' = Some(p)
    /\ UNCHANGED << modals, issued, deletes, listings, guarded >>
    /\ UNCHANGED << authVars, pageVars, cardVars >>

\* closeModal: push(asPath.split('?')[0] ?? '/')
closeModal ==
    /\ PostShown
    /\ post' = None
    /\ postId' = None
    /\ modals' = [modals EXCEPT !["adminPost"] = FALSE, !["userPost"] = FALSE]
    /\ UNCHANGED << issued, deletes, listings, guarded >>
    /\ UNCHANGED << authVars, pageVars, cardVars >>

\* handleDeletePost / handleDeleteUserPost / handleDeleteUser: with an id the
\* handler opens the modal, without one it shows an error
\* (DeleteHandlerIssues: the handler sending the request itself)
DeleteHandlerIssues(k, id) ==
    /\ issued' = [issued EXCEPT ![k] = Append(@, id)]
    /\ UNCHANGED << modals, toasts, guarded >>
deleteHandler(k, id) ==
    /\ IF ~Truthy(id)
       THEN /\ toasts' = toastError(IF k = "deleteUser"
                                     THEN "An error occurred while deleting this user."
                                     ELSE "An error occurred while deleting this post.")
            /\ UNCHANGED << modals, guarded >>
       ELSE /\ modals' = [modals EXCEPT ![k] = TRUE]
            /\ guarded' = [guarded EXCEPT ![k] = id]
            /\ UNCHANGED toasts
    /\ UNCHANGED issued

\* post?.id, profileData?.id, query.postId?.toString() ?? ''
IdOf(o) == IF IsSome(o) THEN Get(o).id ELSE Undefined
OrEmpty(o) == IF IsSome(o) THEN Get(o) ELSE ""

\* the admin's Delete entry of the post menu (data?.user.admin)
handleDeletePost ==
    /\ PostShown
    /\ viewer.admin
    /\ ~modals["adminPost"] /\ ~modals["userPost"]
    /\ Issued < MaxDeletes
    /\ deleteHandler("adminPost", IdOf(post))
    /\ UNCHANGED << post, postId, deletes, listings >>
    /\ UNCHANGED << loading, file, form, chains, location, getMe, linkMutation,
                    imageDeletes, isOpen, profileDeletes, signedOut >>
    /\ UNCHANGED << authVars, cardVars >>

\* the owner's Delete entry of the post menu (userIsProfileOwner)
handleDeleteUserPost ==
    /\ PostShown
    /\ viewer.isCurrentUser
    /\ ~modals["adminPost"] /\ ~modals["userPost"]
    /\ Issued < MaxDeletes
    /\ deleteHandler("userPost", IdOf(post))
    /\ UNCHANGED << post, postId, deletes, listings >>
    /\ UNCHANGED << loading, file, form, chains, location, getMe, linkMutation,
                    imageDeletes, isOpen, profileDeletes, signedOut >>
    /\ UNCHANGED << authVars, cardVars >>

\* the profile menu's delete entry (rendered when !isCurrentUser && currentUser
\* && profileData?.id; the menu offers it to admins)
handleDeleteUser ==
    /\ OnProfile
    /\ ~viewer.isCurrentUser
    /\ viewer.admin
    /\ authStatus = "authenticated"
    /\ Truthy(IdOf(profileData))
    /\ ~modals["deleteUser"]
    /\ Issued < MaxDeletes
    /\ deleteHandler("deleteUser", IdOf(profileData))
    /\ UNCHANGED << post, postId, deletes, listings >>
    /\ UNCHANGED << loading, file, form, chains, location, getMe, linkMutation,
                    imageDeletes, isOpen, profileDeletes, signedOut >>
    /\ UNCHANGED << authVars, cardVars >>

\* deleteFn of the admin's post modal: mutate({id: query.postId ?? ''}); push('/explore')
adminPostDeleteFn ==
    /\ issued' = [issued EXCEPT !["adminPost"] = Append(@, OrEmpty(postId))]
    /\ deletes' = [deletes EXCEPT !["adminPost"] = Append(@, "pending")]
    /\ location' = "/explore"

\* deleteFn of the owner's post modal: deletePost({id: query.postId ?? ''})
userPostDeleteFn ==
    /\ issued' = [issued EXCEPT !["userPost"] = Append(@, OrEmpty(postId))]
    /\ deletes' = [deletes EXCEPT !["userPost"] = Append(@, "pending")]
    /\ UNCHANGED location

\* deleteFn of the card's modal: deleteUser({id: profileData?.id ?? ''}); push('/explore')
deleteUserDeleteFn ==
    /\ issued' = [issued EXCEPT !["deleteUser"] =
                     Append(@, IF Truthy(IdOf(profileData)) THEN IdOf(profileData) ELSE "")]
    /\ deletes' = [deletes EXCEPT !["deleteUser"] = Append(@, "pending")]
    /\ location' = "/explore"

\* <DeleteModal deleteFn={..}>: the confirm button calls deleteFn and closes the modal
confirmDelete(k) ==
    /\ OnProfile
    /\ modals[k]
    /\ k \in {"adminPost", "userPost"} => IsSome(post)
    /\ modals' = [modals EXCEPT ![k] = FALSE]
    /\ CASE k = "adminPost" -> adminPostDeleteFn
         [] k = "userPost" -> userPostDeleteFn
         [] k = "deleteUser" -> deleteUserDeleteFn
    /\ UNCHANGED << post, postId, listings, guarded >>
    /\ UNCHANGED << loading, file, form, chains, toasts, getMe, linkMutation,
                    imageDeletes, isOpen, profileDeletes, signedOut >>
    /\ UNCHANGED << authVars, cardVars >>

\* the modal's cancel button: setIsOpen(false)
cancelDelete(k) ==
    /\ OnProfile
    /\ modals[k]
    /\ modals' = [modals EXCEPT ![k] = FALSE]
    /\ UNCHANGED << post, postId, issued, deletes, listings, guarded >>
    /\ UNCHANGED << authVars, pageVars, cardVars >>

\* the delete requests of kind k that are unanswered
PendingDeletes(k) == {i \in 1..Len(deletes[k]) : deletes[k][i] = "pending"}

\* onSuccess of admin.deletePost and of post.deletePost: toast.success, both
\* post listings are invalidated, closeModal() pushes the profile's path (the
\* asPath of the render that called mutate, without its query)
deletePostOnSuccess(k, i) ==
    /\ i \in PendingDeletes(k)
    /\ Truthy(issued[k][i])
    /\ deletes' = [deletes EXCEPT ![k][i] = "done"]
    /\ listings' = [invalidated |-> TRUE]
    /\ location' = ProfilePath
    /\ post' = None
    /\ postId' = None
    /\ modals' = [modals EXCEPT !["adminPost"] = FALSE, !["userPost"] = FALSE]
    /\ UNCHANGED << issued, guarded >>
    /\ UNCHANGED << loading, file, form, chains, toasts, getMe, linkMutation,
                    imageDeletes, isOpen, profileDeletes, signedOut >>
    /\ UNCHANGED << authVars, cardVars >>

\* onError of the delete mutations: handleErrors shows the message
deleteOnError(k, i, message) ==
    /\ i \in PendingDeletes(k)
    /\ deletes' = [deletes EXCEPT ![k][i] = "failed"]
    /\ toasts' = handleErrors(message)
    /\ UNCHANGED << modals, post, postId, issued, listings, guarded >>
    /\ UNCHANGED << loading, file, form, chains, location, getMe, linkMutation,
                    imageDeletes, isOpen, profileDeletes, signedOut >>
    /\ UNCHANGED << authVars, cardVars >>

adminDeletePostResolve(i) == deletePostOnSuccess("adminPost", i)
adminDeletePostReject(i) ==
    deleteOnError("adminPost", i, "An error occurred while deleting this post.")

deletePostResolve(i) == deletePostOnSuccess("userPost", i)
deletePostReject(i) ==
    deleteOnError("userPost", i, "An error occurred while deleting this post.")

\* admin.deleteUser resolves: the server deletes the user; onSuccess: toast.success
deleteUserResolve(i) ==
    /\ i \in PendingDeletes("deleteUser")
    /\ issued["deleteUser"][i] \in DOMAIN db
    /\ db' = ServerDeleteProfile(issued["deleteUser"][i])
    /\ deletes' = [deletes EXCEPT !["deleteUser"][i] = "done"]
    /\ UNCHANGED << token, session, authCall, updates >>
    /\ UNCHANGED << modals, post, postId, issued, listings, guarded >>
    /\ UNCHANGED << pageVars, cardVars >>

deleteUserReject(i) ==
    deleteOnError("deleteUser", i, "An error occurred while deleting this user.")

\* the card's Edit link (href='/settings/profile'), shown to the profile's owner
openSettings ==
    /\ OnProfile
    /\ viewer.isCurrentUser
    /\ location' = SettingsPath
    /\ post' = None
    /\ postId' = None
    /\ modals' = [k \in DOMAIN modals |-> FALSE]
    /\ UNCHANGED << issued, deletes, listings, guarded >>
    /\ UNCHANGED << loading, file, form, chains, toasts, getMe, linkMutation,
                    imageDeletes, isOpen, profileDeletes, signedOut >>
    /\ UNCHANGED << authVars, cardVars >>

-----------------------------------------------------------------------------
(* The profile card's like toggle: src/components/ProfileCard.tsx *)

MaxLikeCount == 6   \* the like counts the profile starts from: 0..MaxLikeCount
MaxToggles == 2     \* like toggles started in one behaviour

ProfileId == "u2"

\* the server's view of the profile for this viewer
ServerProfile == [id |-> ProfileId, authUserHasLiked |-> likes.liked,
                  likeCount |-> likes.count]

\* the server's likeProfile: the like is toggled
ServerLikeProfile ==
    [liked |-> ~likes.liked,
     count |-> IF likes.liked THEN likes.count - 1 ELSE likes.count + 1]

\* onMutate's optimistic data (lines 66-70)
\* (OptimisticFlagOnly: the count left as it was)
OptimisticFlagOnly(prev) == [prev EXCEPT !.authUserHasLiked = ~@]
optimistic(prev) ==
    [prev EXCEPT !.authUserHasLiked = ~prev.authUserHasLiked,
                 !.likeCount = prev.likeCount + (IF prev.authUserHasLiked THEN -1 ELSE 1)]

\* ctx.user.getProfile.cancel({username}): a refetch in flight is dropped
cancel(c) == [c EXCEPT !.fetching = FALSE]

\* onMutate: the snapshot it returns (the mutation's context) and the cache it
\* leaves (cancel, getData, setData)
onMutateContext(c) == c.data
onMutateCache(c) ==
    IF ~IsSome(c.data) THEN cancel(c)
    ELSE [cancel(c) EXCEPT !.data = Some(optimistic(Get(c.data)))]

\* onError's fn (lines 78-81): written from the profileData prop, not the context
onErrorCache(c, pd) ==
    IF ~IsSome(pd) THEN c
    ELSE [c EXCEPT !.data = Some([Get(pd) EXCEPT !.authUserHasLiked = ~@])]

\* onSettled: ctx.user.getProfile.invalidate({username})
\* (OnSettledNothing: no invalidation)
OnSettledNothing(c) == c
onSettledCache(c) == [c EXCEPT !.invalidated = TRUE, !.fetching = TRUE]

\* the parent renders the card again with the query's current data
Render ==
    /\ OnProfile
    /\ profileData # cache.data
    /\ profileData' = cache.data
    /\ UNCHANGED << cache, likes, like, viewer >>
    /\ UNCHANGED << authVars, pageVars, gateVars >>

\* the Like button's disabled={loading || isLoading}: isLoading of the
\* likeProfile mutation (with profileData rendered the page is not loading)
\* (LikeNeverDisabled: the button left enabled)
LikeNeverDisabled == FALSE
likeDisabled == like.state = "loading"

\* the Like button's onClick (lines 154-162), rendered for !isCurrentUser
likeClick ==
    /\ OnProfile
    /\ ~viewer.isCurrentUser
    /\ ~likeDisabled
    /\ like.n < MaxToggles
    /\ IF authStatus # "authenticated"
       THEN /\ location' = "/login"
            /\ UNCHANGED << cache, like >>
       ELSE IF Truthy(IdOf(profileData))
       THEN /\ like' = [state |-> "loading", context |-> onMutateContext(cache),
                        n |-> like.n + 1]
            /\ cache' = onMutateCache(cache)
            /\ UNCHANGED location
       ELSE UNCHANGED << cache, like, location >>
    /\ UNCHANGED << profileData, likes, viewer >>
    /\ UNCHANGED << loading, file, form, chains, toasts, getMe, linkMutation,
                    imageDeletes, isOpen, profileDeletes, signedOut >>
    /\ UNCHANGED << authVars, gateVars >>

\* likeProfile resolves: the server toggles the like; onSettled
likeResolve ==
    /\ like.state = "loading"
    /\ likes' = ServerLikeProfile
    /\ like' = [like EXCEPT !.state = "success"]
    /\ cache' = onSettledCache(cache)
    /\ UNCHANGED << profileData, viewer >>
    /\ UNCHANGED << authVars, pageVars, gateVars >>

\* likeProfile rejects: onError (handleErrors with the rollback fn), onSettled
likeReject ==
    /\ like.state = "loading"
    /\ like' = [like EXCEPT !.state = "error"]
    /\ cache' = onSettledCache(onErrorCache(cache, profileData))
    /\ toasts' = handleErrors("Could not like!")
    /\ UNCHANGED << profileData, likes, viewer >>
    /\ UNCHANGED << loading, file, form, chains, location, getMe, linkMutation,
                    imageDeletes, isOpen, profileDeletes, signedOut >>
    /\ UNCHANGED << authVars, gateVars >>

\* the refetch of the invalidated getProfile query completes with the server's data
getProfileRefetch ==
    /\ cache.fetching
    /\ cache' = [data |-> Some(ServerProfile), invalidated |-> FALSE,
                 fetching |-> FALSE]
    /\ UNCHANGED << profileData, likes, like, viewer >>
    /\ UNCHANGED << authVars, pageVars, gateVars >>

-----------------------------------------------------------------------------
(* Initial states *)

Identity(u, pw) ==
    [id |-> u, username |-> IF u = "u1" THEN "alice" ELSE "bob", email |-> EmailOf[u],
     password |-> pw, image |-> IF u = "u1" THEN "avatar-1" ELSE Null,
     links |-> {}]

\* the token and the session of a user who signed in as u
TokenOf(u) == jwt(DefaultToken, Some(AuthorizeValue(db[u])))

SignedInAs(u) ==
    /\ token = Some(TokenOf(u))
    /\ session = sessionCallback(DefaultSession, TokenOf(u))

SignedOutInit ==
    /\ token = None
    /\ session = DefaultSession

DbInit == db = [u \in UserIds |-> Identity(u, BcryptHash("correct"))]

AuthInit ==
    /\ authCall = [called |-> FALSE]
    /\ updates = 0

PageInit ==
    /\ loading = FALSE
    /\ file = FALSE
    /\ form = [username |-> "", tagline |-> ""]
    /\ chains = << >>
    /\ toasts = {}
    /\ getMe = [links |-> {}, invalidated |-> FALSE]
    /\ linkMutation = "idle"
    /\ imageDeletes = 0
    /\ isOpen = FALSE
    /\ profileDeletes = 0
    /\ signedOut = FALSE

CardInit(liked, count) ==
    /\ likes = [liked |-> liked, count |-> count]
    /\ cache = [data |-> Some(ServerProfile), invalidated |-> FALSE,
                fetching |-> FALSE]
    /\ profileData = cache.data
    /\ like = [state |-> "idle", context |-> None, n |-> 0]

GateInit ==
    /\ modals = [k \in Kinds \ {"deleteProfile"} |-> FALSE]
    /\ post = None
    /\ postId = None
    /\ issued = [k \in Kinds |-> << >>]
    /\ deletes = [k \in Kinds \ {"deleteProfile"} |-> << >>]
    /\ listings = [invalidated |-> FALSE]
    /\ guarded = [k \in Kinds \ {"deleteProfile"} |-> Undefined]

\* the settings page of the signed-in user u1
Init ==
    /\ DbInit /\ AuthInit /\ SignedInAs("u1")
    /\ PageInit /\ location = SettingsPath
    /\ CardInit(FALSE, 5) /\ viewer = [isCurrentUser |-> TRUE, admin |-> FALSE]
    /\ GateInit

\* the login page: nobody is signed in, the user rows hold any stored password
InitAuth ==
    /\ \E p1, p2 \in StoredPasswords :
          db = [u \in UserIds |-> Identity(u, IF u = "u1" THEN p1 ELSE p2)]
    /\ AuthInit /\ SignedOutInit
    /\ PageInit /\ location = "/login"
    /\ CardInit(FALSE, 5) /\ viewer = [isCurrentUser |-> FALSE, admin |-> FALSE]
    /\ GateInit

\* somebody's profile page, seen by a visitor, a signed-in user or the owner
Viewers ==
    {[signedIn |-> FALSE, isCurrentUser |-> FALSE, admin |-> FALSE]}
    \cup {[signedIn |-> TRUE, isCurrentUser |-> o, admin |-> a] : o, a \in BOOLEAN}

InitProfile(liked, count, v) ==
    /\ DbInit /\ AuthInit
    /\ IF v.signedIn THEN SignedInAs("u1") ELSE SignedOutInit
    /\ PageInit /\ location = ProfilePath
    /\ CardInit(liked, count)
    /\ viewer = [isCurrentUser |-> v.isCurrentUser, admin |-> v.admin]
    /\ GateInit

\* the card's props and the query cache are separate inputs of the component
\* (Props, lines 27-34: profileData is passed in, the cache is read by
\* username): the card may hold profileData while the getProfile query of its
\* username holds no data
InitProfileUncached(liked, count, v) ==
    /\ DbInit /\ AuthInit
    /\ IF v.signedIn THEN SignedInAs("u1") ELSE SignedOutInit
    /\ PageInit /\ location = ProfilePath
    /\ likes = [liked |-> liked, count |-> count]
    /\ cache = [data |-> None, invalidated |-> FALSE, fetching |-> FALSE]
    /\ profileData = Some(ServerProfile)
    /\ like = [state |-> "idle", context |-> None, n |-> 0]
    /\ viewer = [isCurrentUser |-> v.isCurrentUser, admin |-> v.admin]
    /\ GateInit

InitCard ==
    \E liked \in BOOLEAN, count \in 0..MaxLikeCount, v \in Viewers :
        /\ liked => count > 0
        /\ \/ InitProfile(liked, count, v)
           \/ InitProfileUncached(liked, count, v)

InitGate == \E v \in Viewers : InitProfile(FALSE, 5, v)

-----------------------------------------------------------------------------
(* Specifications *)

\* a submit chain of the settings page: the form, the staged file, the requests
\* of handleFormSubmit and their responses
SubmitStep ==
    \/ \E v \in FormUsernames : register("username", v)
    \/ \E v \in FormTaglines : register("tagline", v)
    \/ handleChange
    \/ handleFormSubmit
    \/ \E i \in 1..Len(chains) : setImageResolve(i)
    \/ \E i \in 1..Len(chains) : setImageReject(i)
    \/ \E i \in 1..Len(chains) : putResolve(i)
    \/ \E i \in 1..Len(chains) : putReject(i)
    \/ \E i \in 1..Len(chains) : editProfileResolve(i)
    \/ \E i \in 1..Len(chains) : editProfileReject(i)

\* the page's other mutations: addLink, deleteImage, deleteProfile
OtherStep ==
    \/ handleFormSubmitLink
    \/ addLinkResolve
    \/ addLinkReject
    \/ deleteImageClick
    \/ deleteImageResolve
    \/ deleteImageReject
    \/ openDeleteModal
    \/ confirmDeleteAccount
    \/ cancelDeleteAccount
    \/ deleteProfileResolve
    \/ deleteProfileReject

\* the submit chains and the session refreshes they request
Next == SubmitStep \/ SessionUpdate

Spec == Init /\ [][Next]_vars

\* the submit chains interleaved with the page's other mutations
NextPage ==
    \/ \E v \in FormUsernames : register("username", v)
    \/ handleChange
    \/ handleFormSubmit
    \/ \E i \in 1..Len(chains) : setImageResolve(i)
    \/ \E i \in 1..Len(chains) : setImageReject(i)
    \/ \E i \in 1..Len(chains) : putResolve(i)
    \/ \E i \in 1..Len(chains) : putReject(i)
    \/ \E i \in 1..Len(chains) : editProfileResolve(i)
    \/ \E i \in 1..Len(chains) : editProfileReject(i)
    \/ OtherStep

SpecPage == Init /\ [][NextPage]_vars

\* the add-link form, the getMe query it is rendered from, and the session
NextLinks ==
    \/ handleFormSubmitLink
    \/ addLinkResolve
    \/ addLinkReject
    \/ getMeRefetch
    \/ deleteImageClick
    \/ deleteImageResolve
    \/ deleteImageReject
    \/ SessionUpdate
    \/ \E v \in FormUsernames : register("username", v)

SpecLinks == Init /\ [][NextLinks]_vars

\* sign-in, session reads and sign-out
AuthStep(A) == A /\ UNCHANGED << pageVars, cardVars, gateVars >>

NextAuth ==
    \/ \E e \in Emails, p \in Passwords :
          AuthStep(SignIn([email |-> e, password |-> p]))
    \/ AuthStep(GetSession)
    \/ AuthStep(SignOut)

SpecAuth == InitAuth /\ [][NextAuth]_vars

\* the profile card's like toggle
NextCard ==
    \/ Render
    \/ likeClick
    \/ likeResolve
    \/ likeReject
    \/ getProfileRefetch

SpecCard == InitCard /\ [][NextCard]_vars

\* the destructive actions and their confirmation modals
NextGate ==
    \/ \E p \in PostIds : viewPost(p)
    \/ \E p \in PostIds : routeChange(p)
    \/ closeModal
    \/ handleDeletePost
    \/ handleDeleteUserPost
    \/ handleDeleteUser
    \/ \E k \in Kinds \ {"deleteProfile"} : confirmDelete(k)
    \/ \E k \in Kinds \ {"deleteProfile"} : cancelDelete(k)
    \/ openSettings
    \/ openDeleteModal
    \/ confirmDeleteAccount
    \/ cancelDeleteAccount
    \/ deleteProfileResolve
    \/ deleteProfileReject
    \/ \E i \in 1..MaxDeletes : adminDeletePostResolve(i)
    \/ \E i \in 1..MaxDeletes : adminDeletePostReject(i)
    \/ \E i \in 1..MaxDeletes : deletePostResolve(i)
    \/ \E i \in 1..MaxDeletes : deletePostReject(i)
    \/ \E i \in 1..MaxDeletes : deleteUserResolve(i)
    \/ \E i \in 1..MaxDeletes : deleteUserReject(i)

SpecGate == InitGate /\ [][NextGate]_vars

-----------------------------------------------------------------------------
(* Claims about the credential authentication, checked under SpecAuth *)

Matching(email) == {u \in DOMAIN db : db[u].email = email}
PublicFields == {"id", "username", "image"}

\* C5: for credentials whose email matches a stored identity, authorize succeeds
\* exactly when the stored hash is present, a password was supplied and the
\* hash comparison is true; otherwise it fails with the credential-mismatch
\* error, which is not the no-such-user error.
C5_AuthorizeIffHashMatches ==
    (authCall.called /\ Matching(authCall.credentials.email) # {}) =>
        LET u == CHOOSE x \in Matching(authCall.credentials.email) : TRUE
            pw == authCall.credentials.password
        IN  /\ authCall.ok <=> (/\ Truthy(db[u].password)
                                /\ Truthy(pw)
                                /\ BcryptCompare(pw, db[u].password))
            /\ ~authCall.ok => /\ authCall.error = "Password does not match"
                               /\ authCall.error # "No user found"

\* a login with the right password has succeeded, and one may follow that fails
C5_Witness ==
    /\ authCall.called
    /\ authCall.ok
    /\ authCall.credentials = [email |-> "a@x.com", password |-> "correct"]
    /\ authCall.value.id = "u1"

\* C6: for credentials whose email matches no identity, authorize fails with
\* the no-such-user error and never invokes the hash comparison.
C6_NoUserNoCompare ==
    (authCall.called /\ Matching(authCall.credentials.email) = {}) =>
        /\ ~authCall.ok
        /\ authCall.error = "No user found"
        /\ ~authCall.compared

\* a login for an unknown email, with a password that could have been compared
C6_Witness ==
    /\ authCall.called
    /\ authCall.credentials = [email |-> "nobody@x.com", password |-> "correct"]
    /\ ~authCall.ok

\* C7: neither the value authorize returns, nor the token of the jwt callback,
\* nor the session of the session callback holds the password field: each
\* carries {id, username, image} only.
C7_NoPasswordPastBoundary ==
    /\ (authCall.called /\ authCall.ok) => DOMAIN authCall.value = PublicFields
    /\ (IsSome(token) /\ IsSome(Get(token).user)) =>
           DOMAIN Get(Get(token).user) = PublicFields
    /\ IsSome(session.user) => DOMAIN Get(session.user) = PublicFields

\* a login succeeded and the session was read from its token
C7_Witness ==
    /\ authCall.called /\ authCall.ok
    /\ IsSome(token) /\ IsSome(Get(token).user)
    /\ IsSome(session.user)
    /\ Get(session.user).id = authCall.value.id

-----------------------------------------------------------------------------
(* Claims about the like toggle, checked under SpecCard *)

\* C1: when the likeProfile request fails, the cached profile right after the
\* error handler has run (before any refetch) equals the pre-toggle snapshot:
\* the liked flag and the like count are both restored.
C1_FailedToggleRestoresSnapshot ==
    (like.state = "error" /\ cache.invalidated /\ IsSome(like.context)) =>
        cache.data = like.context

-----------------------------------------------------------------------------
(* Claims about the submit chain, checked under Spec *)

Chains == 1..Len(chains)

SessionMatchesIdentity ==
    (IsSome(session.user) /\ Me \in DOMAIN db) =>
        /\ Get(session.user).username = db[Me].username
        /\ Get(session.user).image = db[Me].image

\* C4: when a session refresh completes, the session's embedded username and
\* image equal the authoritative Identity record.
C4_RefreshSyncsSession ==
    [][updates' < updates => SessionMatchesIdentity']_vars

-----------------------------------------------------------------------------
(* Claims about the submit chains among the page's other mutations, checked *)
(* under SpecPage                                                            *)

\* C8, as claimed: at most one submit chain is in flight at a time, and while a
\* setImage or editProfile request of a chain is unresolved loading is true.
C8_OneChainInFlight ==
    /\ Cardinality({i \in Chains : InFlight(chains[i])}) <= 1
    /\ (\E i \in Chains : InFlight(chains[i])) => loading

\* C8, amended: while an editProfile request started by a submit is unresolved,
\* loading is true unless the error handler of some mutation of the page has
\* run (each calls setLoading(false)); a chain that only uploads does not keep
\* loading true, so a second chain can start while the first is in flight.
C8_LoadingWhileEditPending ==
    ((\E i \in Chains : EditInFlight(chains[i])) /\ toasts = {}) => loading

\* two chains are in flight at once, the second with its editProfile unresolved
C8_Witness ==
    \E i, j \in Chains :
        /\ i < j
        /\ InFlight(chains[i])
        /\ EditInFlight(chains[j])
        /\ toasts = {}
        /\ loading

-----------------------------------------------------------------------------
(* Claims about the add-link form, checked under SpecLinks *)

\* C9: after a successful addLink the getMe query is invalidated (or already
\* shows the new link), so that the link appears in the displayed data.
C9_AddLinkInvalidatesProfile ==
    linkMutation = "success" => (getMe.invalidated \/ LinkUrl \in getMe.links)

-----------------------------------------------------------------------------
(* Claims about the destructive actions, checked under SpecGate *)

ModalOpenNext(k) == IF k = "deleteProfile" THEN isOpen' ELSE modals'[k]

\* C10: a destructive request is issued only by a step taken with that
\* action's confirmation modal open, which closes the modal (the modal's
\* confirm callback); no other step, the Delete click included, issues one.
C10_DeleteOnlyOnConfirm ==
    [][\A k \in Kinds :
          issued'[k] # issued[k] =>
              /\ ModalOpen(k)
              /\ ~ModalOpenNext(k)
              /\ Len(issued'[k]) = Len(issued[k]) + 1]_vars

\* the owner deleted a post and then the account, each after confirming
C10_Witness ==
    /\ Len(issued["userPost"]) > 0
    /\ Len(issued["deleteProfile"]) > 0
    /\ ~isOpen /\ ~modals["userPost"]

\* a delete request of kind k is answered with success / is issued in this step
Succeeds(k) == \E i \in PendingDeletes(k) : deletes'[k][i] = "done"
Fails(k) == \E i \in PendingDeletes(k) : deletes'[k][i] = "failed"
Issues(k) == Len(issued'[k]) > Len(issued[k])

PostKinds == {"adminPost", "userPost"}

\* C11: the follow-up effects of a destructive action happen only after its
\* delete request has succeeded: the user is signed out only by the step of a
\* successful deleteProfile response, the post listings are invalidated only by
\* the step of a successful post delete response, and the step that issues a
\* post delete and the step of its failure neither navigate, nor dismiss the
\* open post, nor sign the user out.
C11_EffectsOnlyAfterSuccess ==
    [][/\ (signedOut' /\ ~signedOut) =>
             (profileDeletes' < profileDeletes /\ Me \notin DOMAIN db')
       /\ (listings'.invalidated /\ ~listings.invalidated) =>
             (\E k \in PostKinds : Succeeds(k))
       /\ \A k \in PostKinds :
             (Issues(k) \/ Fails(k)) =>
                 (location' = location /\ post' = post /\ signedOut' = signedOut)]_vars

-----------------------------------------------------------------------------
(* Claims about one run of handleFormSubmit and its responses, checked under *)
(* Spec                                                                      *)

\* this step is a run of handleFormSubmit; the chain it starts
Submits == Len(chains') = Len(chains) + 1
Started == chains'[Len(chains')]

\* C12: a submit with an empty username, an empty tagline and no staged file
\* issues neither setImage nor editProfile, surfaces no error and leaves
\* loading false.
C12_EmptySubmitIsIdle ==
    [][(Submits /\ ~file /\ form.username = "" /\ form.tagline = "") =>
           /\ Started.img = "none"
           /\ Started.edit = "none"
           /\ Started.payload = None
           /\ toasts' = toasts
           /\ loading' = FALSE]_vars

\* an empty form was submitted without a file, and the page is idle
C12_Witness ==
    \E i \in Chains :
        /\ ~chains[i].staged
        /\ chains[i].fields = [username |-> "", tagline |-> ""]
        /\ chains[i].img = "none" /\ chains[i].edit = "none"
        /\ ~loading
        /\ toasts = {}

\* C13, as claimed: the payload of an editProfile request holds only non-empty
\* fields; a field left empty is not sent.
C13_PayloadOnlyNonEmpty ==
    \A i \in Chains :
        IsSome(chains[i].payload) =>
            \A f \in DOMAIN Get(chains[i].payload) : Truthy(Get(chains[i].payload)[f])

\* C13, amended: the payload of an editProfile request holds both fields with
\* the values submitted, of which at least one is non-empty: a field left
\* empty is sent as the empty string.
C13_PayloadIsSubmittedFields ==
    \A i \in Chains :
        /\ IsSome(chains[i].payload) <=> chains[i].edit # "none"
        /\ IsSome(chains[i].payload) =>
              /\ DOMAIN Get(chains[i].payload) = {"username", "tagline"}
              /\ Get(chains[i].payload) = chains[i].fields
              /\ \E f \in {"username", "tagline"} : Truthy(chains[i].fields[f])

\* a new username was submitted with the tagline left empty, and the request
\* was answered
C13_Witness ==
    \E i \in Chains :
        /\ chains[i].edit = "done"
        /\ IsSome(chains[i].payload)
        /\ Get(chains[i].payload) = [username |-> "alicia", tagline |-> ""]

\* the editProfile request of chain i is answered with success in this step
EditSucceeds(i) == chains[i].edit = "pending" /\ chains'[i].edit = "done"

\* C14: on every successful editProfile response the session refresh is
\* requested first and then the router is sent to the profile URL of the
\* username the server returned, which is not the session's username when the
\* username was changed.
C14_EditSuccessRefreshesThenNavigates ==
    [][\A i \in Chains :
          EditSucceeds(i) =>
              /\ chains'[i].calls = chains[i].calls \o << "update", "push" >>
              /\ updates' > 0 /\ updates' >= updates
              /\ location' = "/" \o db'[Me].username
              /\ chains'[i].navs = Append(chains[i].navs, location')
              /\ (IsSome(session.user) /\ Get(session.user).username # db'[Me].username)
                    => location' # SessionProfileUrl]_vars

\* a changed username was saved: the router is at the new username's profile
\* while the session still holds the old one
C14_Witness ==
    /\ \E i \in Chains : chains[i].edit = "done" /\ chains[i].navs = << "/alicia" >>
    /\ location = "/alicia"
    /\ db[Me].username = "alicia"
    /\ Get(session.user).username = "alice"
    /\ updates > 0

\* the upload step / the editProfile step of chain i fails in this step
UploadFails(i) == ImgInFlight(chains[i]) /\ chains'[i].img = "failed"
EditFails(i) == EditInFlight(chains[i]) /\ chains'[i].edit = "failed"

\* C15: whenever the upload step or the editProfile step of a chain fails, an
\* error message is shown, loading becomes false, the router stays where it
\* was (the chain records no navigation), and the form's username and tagline
\* and the staged file are left as they were.
C15_FailureSurfacesAndKeepsForm ==
    [][\A i \in Chains :
          (UploadFails(i) \/ EditFails(i)) =>
              /\ UploadFails(i) => "Failed to set image!" \in toasts'
              /\ EditFails(i) => "Failed to edit profile!" \in toasts'
              /\ loading' = FALSE
              /\ location' = location
              /\ chains'[i].navs = chains[i].navs
              /\ form' = form
              /\ file' = file]_vars

\* the upload of a chain failed after its editProfile had failed: both errors
\* are shown, the page is idle and still holds the entered username and the file
C15_Witness ==
    /\ \E i \in Chains : chains[i].img = "failed" /\ chains[i].edit = "failed"
    /\ toasts = {"Failed to set image!", "Failed to edit profile!"}
    /\ ~loading
    /\ location = SettingsPath
    /\ form.username = "alicia"
    /\ file

-----------------------------------------------------------------------------
(* Claims about the steps of a like toggle, checked under SpecCard *)

\* this step starts a toggle / answers the toggle in flight
ToggleStarts == like'.n = like.n + 1
ToggleSettles == like.state = "loading" /\ like'.state # "loading"

\* this step is the error answer and its rollback write changed the cache
RollbackWritten == /\ like.state = "loading" /\ like'.state = "error"
                   /\ cache'.data # cache.data

\* C16: for every like toggle the snapshot is the cache as read before the
\* optimistic write; the toggle is answered once, by the rollback or by the
\* confirmation; and a rollback write is applied only for a toggle whose
\* optimistic write was applied (whose onMutate found cached data).
C16_OneRollbackOrConfirmation ==
    [][/\ ToggleStarts =>
             /\ like'.state = "loading"
             /\ like'.context = cache.data
             /\ IsSome(cache.data) => cache'.data = Some(optimistic(Get(cache.data)))
       /\ ToggleSettles => (like'.state \in {"success", "error"} /\ like'.n = like.n)
       /\ like.state # "loading" => like'.state \in {like.state, "loading"}
       /\ RollbackWritten => IsSome(like.context)]_vars

\* C17: every like toggle, answered with success or with an error, invalidates
\* the profile query in the step of its answer, and nothing else does; the
\* refetch installs the server's state, so that with the toggle answered and
\* the refetch complete the cached profile is the server's, whatever the
\* optimistic and rollback writes had left.
C17_SettleInvalidatesThenServerState ==
    /\ []((like.n > 0 /\ like.state # "loading" /\ ~cache.invalidated) =>
              cache.data = Some(ServerProfile))
    /\ [][/\ ToggleSettles => cache'.invalidated
          /\ (cache'.invalidated /\ ~cache.invalidated) => ToggleSettles
          /\ (cache.invalidated /\ ~cache'.invalidated) =>
                cache'.data = Some(ServerProfile')]_vars

\* a toggle that had written optimistically failed, and the refetch after it
\* has put the server's state in the cache
C17_Witness ==
    /\ like.state = "error"
    /\ IsSome(like.context)
    /\ ~cache.invalidated
    /\ cache.data = Some(ServerProfile)
    /\ "Could not like!" \in toasts

\* the profile with the like toggled: the flag flipped, the count one up for a
\* like and one down for an unlike
Toggled(p) ==
    [id |-> p.id,
     authUserHasLiked |-> ~p.authUserHasLiked,
     likeCount |-> IF p.authUserHasLiked THEN p.likeCount - 1 ELSE p.likeCount + 1]

\* C18: for every cached {liked, count} a toggle starts from, the optimistic
\* state written is {not liked, count + 1 if it was not liked, count - 1 if it
\* was}; it stays in the cache while the request is in flight, the step of a
\* successful answer leaves it as it is, and it is still there after the
\* success, until the refetch completes.
C18_SuccessKeepsOptimisticState ==
    /\ []((IsSome(like.context)
             /\ (like.state = "loading" \/ (like.state = "success" /\ cache.invalidated)))
            => cache.data = Some(Toggled(Get(like.context))))
    /\ [][/\ (ToggleStarts /\ IsSome(cache.data)) =>
                cache'.data = Some(Toggled(Get(cache.data)))
          /\ (like.state = "loading" /\ like'.state = "success") =>
                cache'.data = cache.data]_vars

\* an unlike from {liked, 3} succeeded: the cache holds {not liked, 2}
C18_Witness ==
    /\ like.state = "success"
    /\ cache.invalidated
    /\ like.context = Some([id |-> ProfileId, authUserHasLiked |-> TRUE, likeCount |-> 3])
    /\ cache.data = Some([id |-> ProfileId, authUserHasLiked |-> FALSE, likeCount |-> 2])

-----------------------------------------------------------------------------
(* Claims about the navigations of a submit chain, checked under Spec *)

\* the upload of chain i completes in this step; chain i has succeeded
UploadSucceeds(i) == chains[i].img = "put" /\ chains'[i].img = "done"
Successful(c) == c.staged /\ c.img = "done" /\ c.edit \in {"none", "done"}

\* C19: in a chain with a staged file the upload-success handler refreshes the
\* session and navigates exactly when neither a username nor a tagline was
\* submitted; otherwise navigation is left to editProfile's success handler,
\* and a successful chain has navigated exactly once.
C19_UploadNavigatesOnlyWithoutFields ==
    /\ [](\A i \in Chains : Successful(chains[i]) => Len(chains[i].navs) = 1)
    /\ [][\A i \in Chains :
              UploadSucceeds(i) =>
                  (Len(chains'[i].navs) > Len(chains[i].navs)
                       <=> (/\ ~Truthy(chains[i].fields.username)
                            /\ ~Truthy(chains[i].fields.tagline)))]_vars

-----------------------------------------------------------------------------
(* Claims about the Like button, checked under SpecCard *)

\* C20: a likeProfile request is issued only by a step taken with the viewer
\* authenticated and not the profile's owner, the profile id known and no like
\* request of the card in flight; the click of an unauthenticated viewer
\* issues no request and sends the router to /login.
C20_LikeIssuedOnlyWhenAllowed ==
    [][/\ ToggleStarts =>
             /\ authStatus = "authenticated"
             /\ ~viewer.isCurrentUser
             /\ Truthy(IdOf(profileData))
             /\ like.state # "loading"
             /\ location' = location
       /\ location' # location =>
             /\ authStatus # "authenticated"
             /\ location' = "/login"
             /\ like' = like /\ cache' = cache]_vars

\* a second like request is in flight, issued after the first was answered
C20_Witness ==
    /\ like.state = "loading"
    /\ like.n = 2
    /\ authStatus = "authenticated"
    /\ ~viewer.isCurrentUser

-----------------------------------------------------------------------------
(* Claims about the ids of the delete requests, checked under SpecGate *)

\* C21: every delete request issued on confirmation carries a non-empty id,
\* the id its Delete handler checked when it opened the confirmation modal:
\* the post deletes send neither '' nor another id than the guarded post.id,
\* and deleteUser sends the guarded profile id, never ''.
C21_DeleteSendsGuardedId ==
    [][\A k \in Kinds \ {"deleteProfile"} :
          Issues(k) =>
              LET sent == issued'[k][Len(issued'[k])]
              IN  /\ Truthy(sent)
                  /\ sent = guarded[k]]_vars

=============================================================================
